---- MODULE Spec2Model ----
(***************************************************************************)
(* NewtonFractal: the editable Config and its ConfigChangeEvent protocol   *)
(* (config.rs), the coefficient packer and params encoder Params::roots    *)
(* (fractal.rs), and the frame driver App::handle_event / App::redraw      *)
(* (main.rs) with the events UiRenderer::draw emits (ui.rs).               *)
(*                                                                         *)
(* f32 values are modelled as fixed-point numbers: the integer n stands    *)
(* for n / Scale, Scale = 2^FracBits, and NaN stands for the f32 NaN, which *)
(* every operation propagates.  The input sets of Config::apply and of     *)
(* Params::roots hold multiples of 1/2 only (and NaN), so the sums and     *)
(* products the checked properties depend on are exact both in f32 and in  *)
(* the model; a product that is not exact (the roots FractalRenderer::new  *)
(* places at 120 and 240 degrees) is rounded down to the model's           *)
(* resolution.  Rust index i is TLA+ index i + 1.                          *)
(***************************************************************************)
EXTENDS Integers, Sequences, FiniteSets, TLC

VARIABLES
    config,      \* App.config: the Config the events are applied to
    last,        \* history kept by Apply: the event Config::apply last ran on and
                 \* the Config before it; whether the event before that was an
                 \* AddRoot, and the Config before that AddRoot
    panicked,    \* the program has aborted on a panic
    roots_arg,   \* the root slice handed to Params::roots
    params,      \* the Params being built (its ParamsAbi)
    built,       \* Params::roots has returned
    queue,       \* the ConfigChange user events sent through the EventLoopProxy
                 \* and not yet delivered to App::handle_event
    pc,          \* where the event-loop thread is: "idle" between two events,
                 \* "requested" after window.request_redraw(), or the step of
                 \* App::redraw it is about to run
    params_buffer,     \* the contents of FractalRenderer.params_buffer
    surface,     \* the state of the presentation surface (external)
    frame,       \* the current (or last) redraw: the render passes recorded in
                 \* its command encoder, whether it was submitted and presented,
                 \* and the contents of the params buffer the submission read
    exited       \* ControlFlow::Exit has been set

packVars == <<roots_arg, params, built>>
appVars == <<queue, pc, params_buffer, surface, frame, exited>>
vars == <<config, last, panicked, roots_arg, params, built,
          queue, pc, params_buffer, surface, frame, exited>>

----------------------------------------------------------------------------
(* Numbers *)

FracBits == 10
Scale == 2 ^ FracBits
One == Scale
Half == Scale \div 2
(* the f32 NaN, as an integer outside the range of the finite values *)
NaN == 0 - (2 ^ 30)

(* f32 multiplication, subtraction, addition *)
FMul(a, b) == IF a = NaN \/ b = NaN THEN NaN ELSE (a * b) \div Scale
FSub(a, b) == IF a = NaN \/ b = NaN THEN NaN ELSE a - b
FAdd(a, b) == IF a = NaN \/ b = NaN THEN NaN ELSE a + b

Vec2(x, y) == <<x, y>>
Vec4(r, g, b, a) == <<r, g, b, a>>
Vec2ZERO == Vec2(0, 0)

----------------------------------------------------------------------------
(* config.rs *)

MAX_ROOTS == 10

RootConfigDefault ==
    [position |-> Vec2ZERO, color |-> Vec4(0, 0, 0, One)]

CameraConfigDefault ==
    [position |-> Vec2ZERO, zoom |-> One]

ConfigDefault ==
    [num_iterations |-> 30,
     roots |-> << [position |-> Vec2(Half, 0),
                   color |-> Vec4(0, 3 * (One \div 4), 0, One)],
                  [position |-> Vec2(-Half, 0),
                   color |-> Vec4(0, 0, One, 0)] >>,
     camera |-> CameraConfigDefault]

(* ConfigChangeEvent *)
NumIterations(v) == [type |-> "NumIterations", num_iterations |-> v]
AddRoot == [type |-> "AddRoot"]
RemoveRoot(index) == [type |-> "RemoveRoot", index |-> index]
RootPosition(index, position) ==
    [type |-> "RootPosition", index |-> index, position |-> position]
RootColor(index, color) ==
    [type |-> "RootColor", index |-> index, color |-> color]
CameraPosition(v) == [type |-> "CameraPosition", camera_position |-> v]
CameraZoom(v) == [type |-> "CameraZoom", camera_zoom |-> v]

(* Vec::swap_remove instead of Vec::remove: the last element fills the gap *)
VecSwapRemove(s, index) ==
    [j \in 1..(Len(s) - 1) |-> IF j = index + 1 THEN s[Len(s)] ELSE s[j]]

(* Vec::remove taking the index as one-based *)
VecRemoveOneBased(s, index) ==
    [j \in 1..(Len(s) - 1) |-> IF j < index THEN s[j] ELSE s[j + 1]]

(* Vec::remove(index): the elements after index shift down by one *)
VecRemove(s, index) ==
    [j \in 1..(Len(s) - 1) |-> IF j <= index THEN s[j] ELSE s[j + 1]]

(* a panic condition that lets index = len through *)
apply_panics_off_by_one(c, event) ==
    /\ event.type = "RemoveRoot"
    /\ event.index > Len(c.roots)

(* Vec::remove panics when index >= len; no other arm of apply can fail *)
apply_panics(c, event) ==
    /\ event.type = "RemoveRoot"
    /\ event.index >= Len(c.roots)

(* AddRoot inserting at the front instead of pushing *)
apply_AddRoot_front(c) ==
    [c EXCEPT !.roots = <<RootConfigDefault>> \o @]

(* the AddRoot arm: self.roots.push(Default::default()) *)
apply_AddRoot(c) ==
    [c EXCEPT !.roots = Append(@, RootConfigDefault)]

(* RootPosition replacing the whole root by a default one at the position *)
apply_RootPosition_whole(c, index, position) ==
    IF index < Len(c.roots)
    THEN [c EXCEPT !.roots[index + 1] =
                      [RootConfigDefault EXCEPT !.position = position]]
    ELSE c

(* the RootPosition arm: get_mut(index) is None when index >= len *)
apply_RootPosition(c, index, position) ==
    IF index < Len(c.roots)
    THEN [c EXCEPT !.roots[index + 1].position = position]
    ELSE c

(* RootColor clamping an out-of-range index to the last root *)
apply_RootColor_clamped(c, index, color) ==
    IF index < Len(c.roots)
    THEN [c EXCEPT !.roots[index + 1].color = color]
    ELSE IF Len(c.roots) > 0
         THEN [c EXCEPT !.roots[Len(c.roots)].color = color]
         ELSE c

(* the RootColor arm *)
apply_RootColor(c, index, color) ==
    IF index < Len(c.roots)
    THEN [c EXCEPT !.roots[index + 1].color = color]
    ELSE c

(* Config::apply on an event it does not panic on *)
(* Config::apply with a CameraZoom arm that replaces the whole camera *)
apply_zoom_resets_position(c, event) ==
    CASE event.type = "NumIterations" ->
            [c EXCEPT !.num_iterations = event.num_iterations]
      [] event.type = "AddRoot" ->
            apply_AddRoot(c)
      [] event.type = "RemoveRoot" ->
            [c EXCEPT !.roots = VecRemove(@, event.index)]
      [] event.type = "RootPosition" ->
            apply_RootPosition(c, event.index, event.position)
      [] event.type = "RootColor" ->
            apply_RootColor(c, event.index, event.color)
      [] event.type = "CameraPosition" ->
            [c EXCEPT !.camera.position = event.camera_position]
      [] event.type = "CameraZoom" ->
            [c EXCEPT !.camera = [position |-> Vec2ZERO,
                                  zoom |-> event.camera_zoom]]

apply(c, event) ==
    CASE event.type = "NumIterations" ->
            [c EXCEPT !.num_iterations = event.num_iterations]
      [] event.type = "AddRoot" ->
            apply_AddRoot(c)
      [] event.type = "RemoveRoot" ->
            [c EXCEPT !.roots = VecRemove(@, event.index)]
      [] event.type = "RootPosition" ->
            apply_RootPosition(c, event.index, event.position)
      [] event.type = "RootColor" ->
            apply_RootColor(c, event.index, event.color)
      [] event.type = "CameraPosition" ->
            [c EXCEPT !.camera.position = event.camera_position]
      [] event.type = "CameraZoom" ->
            [c EXCEPT !.camera.zoom = event.camera_zoom]

----------------------------------------------------------------------------
(* fractal.rs *)

MAX_COEFFICIENTS == 1 + MAX_ROOTS

Root(position, color) == [position |-> position, color |-> color]

RootAbiZero ==
    [color |-> Vec4(0, 0, 0, 0), position |-> Vec2ZERO, _padding |-> 0]

(* Params::default *)
ParamsDefault ==
    [num_iterations |-> 10,
     _padding |-> 0,
     viewport_min |-> Vec2(-One, One),
     viewport_max |-> Vec2(One, -One),
     num_roots |-> 0,
     _padding_2 |-> 0,
     roots |-> [i \in 1..MAX_ROOTS |-> RootAbiZero],
     coefficients |-> [i \in 1..MAX_COEFFICIENTS |-> Vec2ZERO]]

(* complex multiplication with the sign of the imaginary product flipped *)
complex_mul_sign(a, b) ==
    Vec2(FAdd(FMul(a[1], b[1]), FMul(a[2], b[2])),
         FAdd(FMul(a[1], b[2]), FMul(a[2], b[1])))

complex_mul(a, b) ==
    Vec2(FSub(FMul(a[1], b[1]), FMul(a[2], b[2])),
         FAdd(FMul(a[1], b[2]), FMul(a[2], b[1])))

Vec2Sub(a, b) == Vec2(FSub(a[1], b[1]), FSub(a[2], b[2]))

(* the shift run from the bottom up: every slot ends as the old p[0] *)
ShiftForwardAscending(p) ==
    [i \in 1..MAX_COEFFICIENTS |-> IF i = 1 THEN Vec2ZERO ELSE p[1]]

(* "Multiply p by x (shift forward)": p[i] = p[i - 1] from the top down,    *)
(* then p[0] = ZERO; the old top slot is dropped.                          *)
ShiftForward(p) ==
    [i \in 1..MAX_COEFFICIENTS |-> IF i = 1 THEN Vec2ZERO ELSE p[i - 1]]

(* the loop body with q cloned after the shift instead of before it *)
PackStepPostShift(p, position) ==
    LET shifted == ShiftForward(p)
        q == [i \in 1..MAX_COEFFICIENTS |-> complex_mul(shifted[i], position)]
    IN  [i \in 1..MAX_COEFFICIENTS |-> Vec2Sub(shifted[i], q[i])]

(* One pass of the loop body of Params::roots for one root: q is the clone *)
(* of p taken before the shift, multiplied by the root, and subtracted     *)
(* element-wise from the shifted p.                                        *)
PackStep(p, position) ==
    LET q == [i \in 1..MAX_COEFFICIENTS |-> complex_mul(p[i], position)]
        shifted == ShiftForward(p)
    IN  [i \in 1..MAX_COEFFICIENTS |-> Vec2Sub(shifted[i], q[i])]

(* p initialised to (1,0) in every slot *)
PackInitAllOnes ==
    [i \in 1..MAX_COEFFICIENTS |-> Vec2(One, 0)]

(* p left all zero: p[0] = (1,0) forgotten *)
PackInitZero ==
    [i \in 1..MAX_COEFFICIENTS |-> Vec2ZERO]

PackInit ==
    [i \in 1..MAX_COEFFICIENTS |-> IF i = 1 THEN Vec2(One, 0) ELSE Vec2ZERO]

(* the coefficient loop of Params::roots over the roots in input order *)
RECURSIVE Coefficients(_)
Coefficients(roots) ==
    IF roots = << >>
    THEN PackInit
    ELSE PackStep(Coefficients(SubSeq(roots, 1, Len(roots) - 1)),
                  roots[Len(roots)].position)

(* the assertion as its message words it: at most MAX_ROOTS roots *)
roots_panics_at_most(roots) == ~(Len(roots) <= MAX_ROOTS)

(* the assertion at the head of Params::roots *)
roots_panics(roots) == ~(Len(roots) < MAX_ROOTS)

(* Params::roots on a slice that passes its assertion *)
Params_roots(self, roots) ==
    [self EXCEPT
        !.num_roots = Len(roots),
        !.roots = [i \in 1..MAX_ROOTS |->
                     IF i <= Len(roots)
                     THEN [@[i] EXCEPT !.position = roots[i].position,
                                       !.color = roots[i].color]
                     ELSE @[i]],
        !.coefficients = Coefficients(roots)]

(* Params::viewport *)
Params_viewport(self, top_left, bottom_right) ==
    [self EXCEPT !.viewport_min = top_left, !.viewport_max = bottom_right]

Params_num_iterations(self, num_iterations) ==
    [self EXCEPT !.num_iterations = num_iterations]

(* cos and sin of 0, 120 and 240 degrees, to the resolution of the model *)
Sin120 == (866025 * Scale) \div 1000000
Cos(degrees) == IF degrees = 0 THEN One ELSE 0 - Half
Sin(degrees) ==
    CASE degrees = 0 -> 0
      [] degrees = 120 -> Sin120
      [] degrees = 240 -> 0 - Sin120

from_polar(r, degrees) == Vec2(FMul(r, Cos(degrees)), FMul(r, Sin(degrees)))

Vec4Scale(v, k) == Vec4(FMul(v[1], k), FMul(v[2], k), FMul(v[3], k), FMul(v[4], k))
ZeroPointEight == (8 * Scale) \div 10

(* the contents FractalRenderer::new creates params_buffer with *)
InitialParamsBuffer ==
    Params_roots(ParamsDefault,
        << Root(from_polar(Half, 0), Vec4Scale(Vec4(0, One, One, One), ZeroPointEight)),
           Root(from_polar(Half, 120), Vec4Scale(Vec4(One, 0, One, One), ZeroPointEight)),
           Root(from_polar(Half, 240), Vec4Scale(Vec4(One, One, 0, One), ZeroPointEight)) >>)

(* What one call of redraw has done so far: the outcome of the last       *)
(* get_current_texture ("none" before the first), whether the surface was *)
(* reconfigured after Err(Lost), the passes recorded in the encoder, the  *)
(* submit and the present, and the params buffer the submitted pass read  *)
NoFrame == [result |-> "none", reconfigured |-> FALSE,
            commands |-> << >>, submitted |-> FALSE, presented |-> FALSE,
            used |-> << >>]

----------------------------------------------------------------------------
(* Inputs of the event protocol *)

MaxLen == 11
MaxEditIndex == 0
IterationValues == {30, 7}
PositionValues == {Vec2(One, -One)}
ColorValues == {Vec4(One, Half, 0, One)}
CameraPositionValues == {Vec2ZERO, Vec2(Half, One)}
CameraZoomValues == {One, 2 * One}
RemoveIndices(c) == {0, 1, Len(c.roots) - 1, Len(c.roots), MaxLen + 1} \cap Nat
EditIndices(c) == (0..MaxEditIndex) \cup {Len(c.roots), MaxLen + 1}

(* before any event: no event, and the Config as constructed *)
NoEvent ==
    [event |-> [type |-> "None"], before |-> ConfigDefault,
     added |-> FALSE, before_add |-> ConfigDefault]

Init ==
    /\ config = ConfigDefault
    /\ last = NoEvent
    /\ panicked = FALSE
    /\ roots_arg = << >>
    /\ params = ParamsDefault
    /\ built = FALSE
    /\ queue = << >>
    /\ pc = "idle"
    /\ params_buffer = InitialParamsBuffer
    /\ surface = "configured"
    /\ frame = NoFrame
    /\ exited = FALSE

(* Config::apply(event) on App.config: the successor Config, or the abort *)
(* of the program with no successor Config when apply panics.             *)
ConfigChange(event) ==
    /\ ~panicked
    /\ IF apply_panics(config, event)
       THEN /\ panicked' = TRUE
            /\ config' = config
       ELSE /\ panicked' = FALSE
            /\ config' = apply(config, event)
    /\ UNCHANGED packVars

(* Config::apply called on its own, on any event; the history is kept *)
Apply(event) ==
    /\ ConfigChange(event)
    /\ last' = [event |-> event,
                before |-> config,
                added |-> last.event.type = "AddRoot",
                before_add |-> IF last.event.type = "AddRoot"
                               THEN last.before ELSE config]
    /\ UNCHANGED appVars

ApplyNumIterations == \E v \in IterationValues : Apply(NumIterations(v))
ApplyAddRoot == Len(config.roots) < MaxLen /\ Apply(AddRoot)
ApplyRemoveRoot == \E i \in RemoveIndices(config) : Apply(RemoveRoot(i))
ApplyRootPosition ==
    \E i \in EditIndices(config), p \in PositionValues : Apply(RootPosition(i, p))
ApplyRootColor ==
    \E i \in EditIndices(config), c \in ColorValues : Apply(RootColor(i, c))
ApplyCameraPosition ==
    \E v \in CameraPositionValues : Apply(CameraPosition(v))
ApplyCameraZoom == \E v \in CameraZoomValues : Apply(CameraZoom(v))

Next ==
    \/ ApplyNumIterations
    \/ ApplyAddRoot
    \/ ApplyRemoveRoot
    \/ ApplyRootPosition
    \/ ApplyRootColor
    \/ ApplyCameraPosition
    \/ ApplyCameraZoom

Spec == Init /\ [][Next]_vars

----------------------------------------------------------------------------
(* Params::roots as a function of its input slice *)

MaxPackRoots == 3
PackPositions ==
    {Vec2(Half, 0), Vec2(-Half, 0), Vec2(0, One), Vec2(One, -Half), Vec2(NaN, 0)}
LongPositions == {Vec2ZERO, Vec2(Half, 0), Vec2(0, -Half)}
PackColor == Vec4(0, 0, 0, One)

RECURSIVE SeqsUpTo(_, _)
SeqsUpTo(S, n) ==
    IF n = 0
    THEN {<< >>}
    ELSE LET shorter == SeqsUpTo(S, n - 1)
         IN  shorter \cup {Append(s, x) : s \in {t \in shorter : Len(t) = n - 1}, x \in S}

(* every list of at most MaxPackRoots roots over PackPositions, and the    *)
(* lists of one repeated root of every length up to MaxLen                 *)
PackInputs ==
    {[i \in 1..Len(ps) |-> Root(ps[i], PackColor)] : ps \in SeqsUpTo(PackPositions, MaxPackRoots)}
    \cup {[i \in 1..n |-> Root(p, PackColor)] : n \in 0..MaxLen, p \in LongPositions}

InitPack ==
    /\ config = ConfigDefault
    /\ last = NoEvent
    /\ panicked = FALSE
    /\ roots_arg \in PackInputs
    /\ params = ParamsDefault
    /\ built = FALSE
    /\ queue = << >>
    /\ pc = "idle"
    /\ params_buffer = InitialParamsBuffer
    /\ surface = "configured"
    /\ frame = NoFrame
    /\ exited = FALSE

(* Params::default().roots(roots_arg) *)
CallRoots ==
    /\ ~panicked
    /\ ~built
    /\ IF roots_panics(roots_arg)
       THEN /\ panicked' = TRUE
            /\ UNCHANGED <<params, built>>
       ELSE /\ params' = Params_roots(params, roots_arg)
            /\ built' = TRUE
            /\ UNCHANGED panicked
    /\ UNCHANGED <<roots_arg, config, last, appVars>>

NextPack == CallRoots

SpecPack == InitPack /\ [][NextPack]_vars

----------------------------------------------------------------------------
(* main.rs and ui.rs: the event loop, App::handle_event and App::redraw *)

MaxEmit == 2
MaxUiRoots == 3
UiIterationInputs == {0 - 1, 7}
UiColorInputs == {<<One, Half, 0>>}
UiCameraPositionInputs == {Vec2(Half, One)}
UiCameraZoomInputs == {2 * One}

Max(a, b) == IF a >= b THEN a ELSE b

(* a window with a Remove button beside every root's widgets *)
UiCandidatesWithRemove(c) ==
    {[ord |-> 1, event |-> NumIterations(Max(v, 0))] : v \in UiIterationInputs}
    \cup {[ord |-> 2, event |-> CameraPosition(v)] : v \in UiCameraPositionInputs}
    \cup {[ord |-> 3, event |-> CameraZoom(v)] : v \in UiCameraZoomInputs}
    \cup {[ord |-> 4 + 3 * i, event |-> RootPosition(i, v)] :
             i \in {j \in 0..MaxEditIndex : j < Len(c.roots)}, v \in PositionValues}
    \cup {[ord |-> 5 + 3 * i, event |-> RootColor(i, <<v[1], v[2], v[3], One>>)] :
             i \in {j \in 0..MaxEditIndex : j < Len(c.roots)}, v \in UiColorInputs}
    \cup {[ord |-> 6 + 3 * i, event |-> RemoveRoot(i)] :
             i \in {j \in 0..MaxEditIndex : j < Len(c.roots)}}
    \cup (IF Len(c.roots) < MaxUiRoots
          THEN {[ord |-> 4 + 3 * Len(c.roots), event |-> AddRoot]}
          ELSE {})

(* The ConfigChangeEvents one UiRenderer::draw can send for the Config it  *)
(* is given, each with the place of its widget in the window.              *)
UiCandidates(c) ==
    {[ord |-> 1, event |-> NumIterations(Max(v, 0))] : v \in UiIterationInputs}
    \cup {[ord |-> 2, event |-> CameraPosition(v)] : v \in UiCameraPositionInputs}
    \cup {[ord |-> 3, event |-> CameraZoom(v)] : v \in UiCameraZoomInputs}
    \cup {[ord |-> 4 + 2 * i, event |-> RootPosition(i, v)] :
             i \in {j \in 0..MaxEditIndex : j < Len(c.roots)}, v \in PositionValues}
    \cup {[ord |-> 5 + 2 * i, event |-> RootColor(i, <<v[1], v[2], v[3], One>>)] :
             i \in {j \in 0..MaxEditIndex : j < Len(c.roots)}, v \in UiColorInputs}
    \cup (IF Len(c.roots) < MaxUiRoots
          THEN {[ord |-> 4 + 2 * Len(c.roots), event |-> AddRoot]}
          ELSE {})

(* the sequences of at most n candidates, in widget order *)
RECURSIVE UiEmissions(_, _)
UiEmissions(c, n) ==
    IF n = 0
    THEN {<< >>}
    ELSE LET shorter == UiEmissions(c, n - 1)
         IN  shorter \cup
             UNION {{Append(s, w) : w \in {x \in UiCandidates(c) :
                                             s = << >> \/ s[Len(s)].ord < x.ord}} :
                    s \in {t \in shorter : Len(t) = n - 1}}

InitApp ==
    /\ config = ConfigDefault
    /\ last = NoEvent
    /\ panicked = FALSE
    /\ roots_arg = << >>
    /\ params = ParamsDefault
    /\ built = FALSE
    /\ queue = << >>
    /\ pc = "idle"
    /\ params_buffer = InitialParamsBuffer
    /\ surface = "configured"
    /\ frame = NoFrame
    /\ exited = FALSE

Running == ~panicked /\ ~exited

(* Event::MainEventsCleared: window.request_redraw().  The event loop     *)
(* sends it once every pending event, user events included, is handled.   *)
MainEventsCleared ==
    /\ Running
    /\ pc = "idle"
    /\ queue = << >>
    /\ pc' = "requested"
    /\ UNCHANGED <<config, last, panicked, packVars, queue, params_buffer, surface,
                   frame, exited>>

(* Event::RedrawRequested: ui_renderer.update(dt), then redraw() starts *)
RedrawRequested ==
    /\ Running
    /\ pc = "requested"
    /\ pc' = "acquire"
    /\ frame' = NoFrame
    /\ UNCHANGED <<config, last, panicked, packVars, queue, params_buffer, surface,
                   exited>>

(* The surface is lost (external).  The loss is seen by the program only  *)
(* at get_current_texture, so it is taken to happen right before a call.  *)
SurfaceLost ==
    /\ Running
    /\ pc = "acquire"
    /\ surface = "configured"
    /\ surface' = "lost"
    /\ UNCHANGED <<config, last, panicked, packVars, queue, pc, params_buffer,
                   frame, exited>>

(* the loop going round again on Timeout and Outdated as it does on Lost *)
GetCurrentTextureRetries ==
    /\ Running
    /\ pc = "acquire"
    /\ IF surface = "lost"
       THEN /\ surface' = "configured"
            /\ frame' = [frame EXCEPT !.result = "Lost", !.reconfigured = TRUE]
            /\ UNCHANGED <<pc, panicked>>
       ELSE \E result \in {"Ok", "Timeout", "Outdated", "OutOfMemory"} :
              /\ surface' = surface
              /\ frame' = [frame EXCEPT !.result = result]
              /\ CASE result = "Ok" ->
                        pc' = "draw_fractal" /\ UNCHANGED panicked
                   [] result \in {"Timeout", "Outdated"} ->
                        UNCHANGED <<pc, panicked>>
                   [] result = "OutOfMemory" ->
                        panicked' = TRUE /\ UNCHANGED pc
    /\ UNCHANGED <<config, last, packVars, queue, params_buffer, exited>>

(* redraw: one pass of the loop around surface.get_current_texture() *)
GetCurrentTexture ==
    /\ Running
    /\ pc = "acquire"
    /\ IF surface = "lost"
       THEN \* Err(Lost): reconfigure and go round the loop again
            /\ surface' = "configured"
            /\ frame' = [frame EXCEPT !.result = "Lost", !.reconfigured = TRUE]
            /\ UNCHANGED <<pc, panicked>>
       ELSE \E result \in {"Ok", "Timeout", "Outdated", "OutOfMemory"} :
              /\ surface' = surface
              /\ frame' = [frame EXCEPT !.result = result]
              /\ CASE result = "Ok" ->
                        pc' = "draw_fractal" /\ UNCHANGED panicked
                   [] result \in {"Timeout", "Outdated"} ->
                        \* return Ok(())
                        pc' = "idle" /\ UNCHANGED panicked
                   [] result = "OutOfMemory" ->
                        \* return Err(..), and handle_event unwraps it
                        panicked' = TRUE /\ UNCHANGED pc
    /\ UNCHANGED <<config, last, packVars, queue, params_buffer, exited>>

(* FractalRenderer::draw writing the viewport of the Config's camera into  *)
(* params_buffer before its pass                                           *)
FractalDrawCamera ==
    /\ Running
    /\ pc = "draw_fractal"
    /\ params_buffer' =
          Params_viewport(params_buffer,
              <<config.camera.position[1] - config.camera.zoom,
                config.camera.position[2] + config.camera.zoom>>,
              <<config.camera.position[1] + config.camera.zoom,
                config.camera.position[2] - config.camera.zoom>>)
    /\ frame' = [frame EXCEPT !.commands = Append(@, "FractalRenderer.render_pass")]
    /\ pc' = "draw_ui"
    /\ UNCHANGED <<config, last, panicked, packVars, queue, surface, exited>>

(* FractalRenderer::draw: one render pass that binds params_buffer and     *)
(* draws 6 vertices, 1 instance.  It writes nothing to params_buffer.      *)
FractalDraw ==
    /\ Running
    /\ pc = "draw_fractal"
    /\ frame' = [frame EXCEPT !.commands = Append(@, "FractalRenderer.render_pass")]
    /\ pc' = "draw_ui"
    /\ UNCHANGED <<config, last, panicked, packVars, queue, params_buffer, surface,
                   exited>>

(* UiRenderer::draw applying the first change itself instead of sending it *)
UiDrawApplies ==
    /\ Running
    /\ pc = "draw_ui"
    /\ \E sent \in UiEmissions(config, MaxEmit) :
          IF sent = << >>
          THEN UNCHANGED <<config, queue>>
          ELSE /\ config' = apply(config, sent[1].event)
               /\ queue' = queue \o [k \in 1..(Len(sent) - 1) |-> sent[k + 1].event]
    /\ frame' = [frame EXCEPT !.commands = Append(@, "UiRenderer.render_pass")]
    /\ pc' = "submit"
    /\ UNCHANGED <<last, panicked, packVars, params_buffer, surface, exited>>

(* UiRenderer::draw: builds the window from the Config, sends a            *)
(* ConfigChange for every widget the user changed, records its pass        *)
UiDraw ==
    /\ Running
    /\ pc = "draw_ui"
    /\ \E sent \in UiEmissions(config, MaxEmit) :
          /\ queue' = queue \o [k \in 1..Len(sent) |-> sent[k].event]
    /\ frame' = [frame EXCEPT !.commands = Append(@, "UiRenderer.render_pass")]
    /\ pc' = "submit"
    /\ UNCHANGED <<config, last, panicked, packVars, params_buffer, surface, exited>>

(* UiRenderer::draw returning Err (prepare_frame or renderer.render), which *)
(* redraw propagates and handle_event unwraps                               *)
UiDrawError ==
    /\ Running
    /\ pc = "draw_ui"
    /\ panicked' = TRUE
    /\ UNCHANGED <<config, last, packVars, queue, pc, params_buffer, surface, frame,
                   exited>>

(* the encoder dropped instead of submitted *)
SubmitDropped ==
    /\ Running
    /\ pc = "submit"
    /\ pc' = "present"
    /\ UNCHANGED <<config, last, panicked, packVars, queue, params_buffer, surface,
                   frame, exited>>

(* queue.submit([encoder.finish()]): the passes run and read params_buffer *)
Submit ==
    /\ Running
    /\ pc = "submit"
    /\ frame' = [frame EXCEPT !.submitted = TRUE, !.used = params_buffer]
    /\ pc' = "present"
    /\ UNCHANGED <<config, last, panicked, packVars, queue, params_buffer, surface,
                   exited>>

(* frame.present(), and redraw returns Ok(()) *)
Present ==
    /\ Running
    /\ pc = "present"
    /\ frame' = [frame EXCEPT !.presented = TRUE]
    /\ pc' = "idle"
    /\ UNCHANGED <<config, last, panicked, packVars, queue, params_buffer, surface,
                   exited>>

(* Event::UserEvent(AppEvent::ConfigChange(e)): self.config.apply(e) *)
UserEvent ==
    /\ Running
    /\ pc = "idle"
    /\ queue # << >>
    /\ ConfigChange(Head(queue))
    /\ queue' = Tail(queue)
    /\ UNCHANGED <<last, pc, params_buffer, surface, frame, exited>>

(* a resize that also recreates the Config *)
ResizedResetsConfig ==
    /\ Running
    /\ pc = "idle"
    /\ surface' = "configured"
    /\ config' = ConfigDefault
    /\ UNCHANGED <<last, panicked, packVars, queue, pc, params_buffer, frame,
                   exited>>

(* WindowEvent::Resized / ScaleFactorChanged: gfx.reconfigure() *)
Resized ==
    /\ Running
    /\ pc = "idle"
    /\ surface' = "configured"
    /\ UNCHANGED <<config, last, panicked, packVars, queue, pc, params_buffer,
                   frame, exited>>

(* WindowEvent::CloseRequested: *control_flow = ControlFlow::Exit *)
CloseRequested ==
    /\ Running
    /\ pc = "idle"
    /\ exited' = TRUE
    /\ UNCHANGED <<config, last, panicked, packVars, queue, pc, params_buffer,
                   surface, frame>>

NextApp ==
    \/ MainEventsCleared
    \/ RedrawRequested
    \/ SurfaceLost
    \/ GetCurrentTexture
    \/ FractalDraw
    \/ UiDraw
    \/ UiDrawError
    \/ Submit
    \/ Present
    \/ UserEvent
    \/ Resized
    \/ CloseRequested

SpecApp == InitApp /\ [][NextApp]_vars

----------------------------------------------------------------------------
(* One call of App::redraw, from the RedrawRequested that starts it to its *)
(* return, on a Config the handler has produced                            *)

RedrawConfigs ==
    {ConfigDefault,
     apply(ConfigDefault, AddRoot),
     apply(ConfigDefault, CameraZoom(2 * One))}

InitRedraw ==
    /\ config \in RedrawConfigs
    /\ last = NoEvent
    /\ panicked = FALSE
    /\ roots_arg = << >>
    /\ params = ParamsDefault
    /\ built = FALSE
    /\ queue = << >>
    /\ pc = "requested"
    /\ params_buffer = InitialParamsBuffer
    /\ surface = "configured"
    /\ frame = NoFrame
    /\ exited = FALSE

(* the steps of redraw *)
RedrawStep ==
    \/ GetCurrentTexture
    \/ FractalDraw
    \/ UiDraw
    \/ UiDrawError
    \/ Submit
    \/ Present

NextRedraw ==
    \/ RedrawRequested
    \/ SurfaceLost
    \/ RedrawStep

(* redraw is straight-line code on one thread, so a call that has started  *)
(* keeps taking its next step: weak fairness.  The surface does not report *)
(* Lost for ever: a get_current_texture that finds the surface configured  *)
(* is possible again and again (after each reconfigure), so it eventually  *)
(* happens: strong fairness.                                               *)
SpecRedraw ==
    /\ InitRedraw
    /\ [][NextRedraw]_vars
    /\ WF_vars(RedrawRequested \/ RedrawStep)
    /\ SF_vars(GetCurrentTexture /\ surface = "configured")

----------------------------------------------------------------------------
(* Properties of Config::apply, checked under Spec *)

Ev == last.event
Before == last.before
InRange == Ev.index < Len(Before.roots)
SameExceptRoots == /\ config.num_iterations = Before.num_iterations
                   /\ config.camera = Before.camera

(* C1: in every state reachable from the default Config by applying        *)
(* ConfigChangeEvents, the number of roots is strictly less than MAX_ROOTS *)
C1_RootCountBelowMax == Len(config.roots) < MAX_ROOTS

(* C3: RootPosition(k, p) (resp. RootColor(k, c)) with k below the root    *)
(* count replaces exactly roots[k].position (resp. roots[k].color) and     *)
(* leaves the other field of roots[k], every other root, the root count    *)
(* and order, the iteration count and the camera unchanged                 *)
C3_SetterReplacesExactlyOneField ==
    /\ (Ev.type = "RootPosition" /\ InRange) =>
          /\ ~panicked
          /\ Len(config.roots) = Len(Before.roots)
          /\ config.roots[Ev.index + 1].position = Ev.position
          /\ config.roots[Ev.index + 1].color = Before.roots[Ev.index + 1].color
          /\ \A j \in 1..Len(Before.roots) :
                j # Ev.index + 1 => config.roots[j] = Before.roots[j]
          /\ SameExceptRoots
    /\ (Ev.type = "RootColor" /\ InRange) =>
          /\ ~panicked
          /\ Len(config.roots) = Len(Before.roots)
          /\ config.roots[Ev.index + 1].color = Ev.color
          /\ config.roots[Ev.index + 1].position = Before.roots[Ev.index + 1].position
          /\ \A j \in 1..Len(Before.roots) :
                j # Ev.index + 1 => config.roots[j] = Before.roots[j]
          /\ SameExceptRoots

(* a RootPosition event on a valid index that changed the position of a    *)
(* root whose colour is not the default one, beside another root           *)
C3_Witness ==
    /\ Ev.type = "RootPosition"
    /\ InRange
    /\ Len(Before.roots) >= 2
    /\ Before.roots[Ev.index + 1].position # Ev.position
    /\ Before.roots[Ev.index + 1].color # RootConfigDefault.color
    /\ config.roots[Ev.index + 1].position = Ev.position

(* C4: RootPosition or RootColor with an index greater than or equal to    *)
(* the number of roots leaves the whole Config unchanged and raises no     *)
(* error                                                                   *)
C4_OutOfRangeSetterIsNoOp ==
    (Ev.type \in {"RootPosition", "RootColor"} /\ ~InRange) =>
        /\ config = Before
        /\ ~panicked

(* a RootColor event at exactly index = len, on a non-empty root list      *)
C4_Witness ==
    /\ Ev.type = "RootColor"
    /\ Ev.index = Len(Before.roots)
    /\ Len(Before.roots) > 0
    /\ Before.roots[Len(Before.roots)].color # Ev.color

(* C5: RemoveRoot(i) with i greater than or equal to the number of roots   *)
(* (any RemoveRoot on an empty list included) aborts the program and       *)
(* produces no successor Config, while the out-of-range setters do not     *)
(* abort; nothing else aborts                                              *)
C5_OutOfRangeRemoveIsFatal ==
    /\ (Ev.type = "RemoveRoot" /\ ~InRange) => (panicked /\ config = Before)
    /\ (Ev.type \in {"RootPosition", "RootColor"} /\ ~InRange) => ~panicked
    /\ panicked => (Ev.type = "RemoveRoot" /\ ~InRange)

(* the program aborted on RemoveRoot(0) applied to an empty root list      *)
C5_Witness ==
    /\ panicked
    /\ Ev.type = "RemoveRoot"
    /\ Ev.index = 0
    /\ Before.roots = << >>

(* C6: RemoveRoot(i) with i below the root count yields a list one shorter *)
(* in which the roots below i are unchanged and each root previously at    *)
(* j > i is at j - 1; iteration count and camera are unchanged             *)
C6_RemoveShiftsDown ==
    (Ev.type = "RemoveRoot" /\ InRange) =>
        /\ ~panicked
        /\ Len(config.roots) = Len(Before.roots) - 1
        /\ \A j \in 0..(Len(Before.roots) - 1) :
              /\ j < Ev.index => config.roots[j + 1] = Before.roots[j + 1]
              /\ j > Ev.index => config.roots[j] = Before.roots[j + 1]
        /\ SameExceptRoots

(* RemoveRoot(0) on three or more roots of which the second and the last   *)
(* differ: roots shifted down past the removed index                       *)
C6_Witness ==
    /\ Ev.type = "RemoveRoot"
    /\ Ev.index = 0
    /\ Len(Before.roots) >= 3
    /\ Before.roots[2] # Before.roots[Len(Before.roots)]
    /\ Len(config.roots) = Len(Before.roots) - 1

(* C7: AddRoot increases the root count by exactly one, the new last root  *)
(* has position (0,0) and colour (0,0,0,1), and the roots that existed     *)
(* keep their index, position and colour                                   *)
C7_AddRootAppendsDefault ==
    Ev.type = "AddRoot" =>
        /\ ~panicked
        /\ Len(config.roots) = Len(Before.roots) + 1
        /\ config.roots[Len(config.roots)].position = <<0, 0>>
        /\ config.roots[Len(config.roots)].color = <<0, 0, 0, One>>
        /\ \A j \in 1..Len(Before.roots) : config.roots[j] = Before.roots[j]

(* AddRoot applied to a Config whose first root is not a default root      *)
C7_Witness ==
    /\ Ev.type = "AddRoot"
    /\ Len(Before.roots) >= 1
    /\ Before.roots[1] # RootConfigDefault
    /\ Len(config.roots) = Len(Before.roots) + 1

(* C8: AddRoot followed by RemoveRoot(lastIndex), lastIndex the index of   *)
(* the root just appended, restores the roots to the prior length and      *)
(* values, and leaves iteration count and camera as they were              *)
C8_AddThenRemoveLastRestores ==
    (/\ last.added
     /\ Ev.type = "RemoveRoot"
     /\ Ev.index = Len(last.before_add.roots)) =>
        /\ ~panicked
        /\ Len(config.roots) = Len(last.before_add.roots)
        /\ \A j \in 1..Len(config.roots) : config.roots[j] = last.before_add.roots[j]
        /\ config.num_iterations = last.before_add.num_iterations
        /\ config.camera = last.before_add.camera

(* AddRoot then RemoveRoot(lastIndex) from a Config with two or more roots *)
(* that are not default roots                                              *)
C8_Witness ==
    /\ last.added
    /\ Ev.type = "RemoveRoot"
    /\ Ev.index = Len(last.before_add.roots)
    /\ Len(last.before_add.roots) >= 2
    /\ last.before_add.roots[1] # RootConfigDefault
    /\ ~panicked

----------------------------------------------------------------------------
(* Properties of the frame driver, checked under SpecApp *)

(* the root slice of a Config *)
ConfigRoots(c) ==
    [i \in 1..Len(c.roots) |-> Root(c.roots[i].position, c.roots[i].color)]

(* the encoding of a Config: its iteration count, root count, roots and   *)
(* coefficients in a default Params                                       *)
EncodeConfig(c) ==
    Params_roots(Params_num_iterations(ParamsDefault, c.num_iterations),
                 ConfigRoots(c))

(* C2: the params buffer a drawn frame reads encodes the Config as it is  *)
(* at that frame (iteration count, root count, roots, coefficients), the  *)
(* first frame with the two-root default Config included                  *)
C2_DrawnFrameUsesBufferOfCurrentConfig ==
    (pc = "present" /\ frame.submitted) =>
        /\ ~roots_panics(ConfigRoots(config))
        /\ frame.used = EncodeConfig(config)

----------------------------------------------------------------------------
(* Properties of Params::roots, checked under SpecPack *)

Finite(v) == v[1] # NaN /\ v[2] # NaN
AllFinite(roots) == \A i \in 1..Len(roots) : Finite(roots[i].position)

(* exact complex arithmetic on the fixed-point values *)
CMul(a, b) ==
    <<(a[1] * b[1] - a[2] * b[2]) \div Scale, (a[1] * b[2] + a[2] * b[1]) \div Scale>>
CAdd(a, b) == <<a[1] + b[1], a[2] + b[2]>>
CNeg(a) == <<0 - a[1], 0 - a[2]>>

(* (x - r_0)...(x - r_{n-1}), multiplied out factor by factor *)
RECURSIVE ProductAt(_, _, _)
ProductAt(roots, n, x) ==
    IF n = 0
    THEN <<One, 0>>
    ELSE CMul(ProductAt(roots, n - 1, x), CAdd(x, CNeg(roots[n].position)))

(* more than MAX_COEFFICIENTS distinct points: two polynomials with        *)
(* MAX_COEFFICIENTS coefficient slots that agree on them are equal         *)
SamplePoints ==
    {<<x, y>> : x \in {0 - Half, 0, Half}, y \in {0 - Half, 0, Half}}
    \cup {<<One, 0>>, <<0 - One, 0>>, <<0, One>>, <<0, 0 - One>>}

(* the value at x of the polynomial with coefficient slots k.. of c, by    *)
(* Horner's rule over all MAX_COEFFICIENTS slots                           *)
RECURSIVE Horner(_, _, _)
Horner(c, k, x) ==
    IF k = MAX_COEFFICIENTS - 1
    THEN c[k + 1]
    ELSE CAdd(c[k + 1], CMul(x, Horner(c, k + 1, x)))

C10_LeadingCoefficientIsOneForAnyValues ==
    built => params.coefficients[Len(roots_arg) + 1] = <<One, 0>>

(* C10 as amended: for any root list of length N < MAX_ROOTS whose         *)
(* positions are all finite, the coefficient at slot N is exactly (1,0)    *)
C10_LeadingCoefficientIsOne ==
    (built /\ AllFinite(roots_arg)) =>
        params.coefficients[Len(roots_arg) + 1] = <<One, 0>>

(* MAX_ROOTS - 1 roots away from the origin have been packed               *)
C10_Witness ==
    /\ built
    /\ Len(roots_arg) = MAX_ROOTS - 1
    /\ \A i \in 1..Len(roots_arg) : roots_arg[i].position = <<0, 0 - Half>>
    /\ params.coefficients[MAX_ROOTS] = <<One, 0>>

(* the arithmetic the claims are stated in: complex product, difference   *)
(* and negation, in which a NaN component makes the result NaN             *)
HasNaN(a) == a[1] = NaN \/ a[2] = NaN
SMul(a, b) ==
    IF HasNaN(a) \/ HasNaN(b)
    THEN <<NaN, NaN>>
    ELSE <<(a[1] * b[1] - a[2] * b[2]) \div Scale,
           (a[1] * b[2] + a[2] * b[1]) \div Scale>>
SSub(a, b) ==
    <<IF a[1] = NaN \/ b[1] = NaN THEN NaN ELSE a[1] - b[1],
      IF a[2] = NaN \/ b[2] = NaN THEN NaN ELSE a[2] - b[2]>>
SNeg(a) == SSub(<<0, 0>>, a)

(* the running coefficient vector after the first k roots *)
After(k) == Coefficients(SubSeq(roots_arg, 1, k))

(* C11 as stated: for any root list of length N < MAX_ROOTS, after each    *)
(* root is processed (after k roots) every slot above k, up to the last    *)
(* slot MAX_ROOTS, is exactly (0,0), so the shift never drops a non-zero   *)
(* coefficient from the top slot                                           *)
C11_SlotsAboveDegreeAreZeroForAnyValues ==
    built =>
        /\ \A j \in (Len(roots_arg) + 1)..MAX_ROOTS :
              params.coefficients[j + 1] = <<0, 0>>
        /\ \A k \in 0..Len(roots_arg) : \A j \in (k + 1)..MAX_ROOTS :
              After(k)[j + 1] = <<0, 0>>

(* C11 as amended: the same for root lists whose positions are all finite *)
C11_SlotsAboveDegreeAreZero ==
    (built /\ AllFinite(roots_arg)) =>
        /\ \A j \in (Len(roots_arg) + 1)..MAX_ROOTS :
              params.coefficients[j + 1] = <<0, 0>>
        /\ \A k \in 0..Len(roots_arg) : \A j \in (k + 1)..MAX_ROOTS :
              After(k)[j + 1] = <<0, 0>>

(* three roots away from the origin packed: slots 0..3 are all non-zero    *)
(* and seven slots lie above the degree                                    *)
C11_Witness ==
    /\ built
    /\ Len(roots_arg) = 3
    /\ \A i \in 1..3 : roots_arg[i].position = <<One, 0 - Half>>
    /\ \A j \in 0..3 : params.coefficients[j + 1] # <<0, 0>>
    /\ params.coefficients[5] = <<0, 0>>

(* C12: packing an empty root list yields the constant polynomial 1: slot  *)
(* 0 is (1,0), every other slot is (0,0), and the root count is 0          *)
C12_EmptyListGivesOne ==
    (built /\ roots_arg = << >>) =>
        /\ params.coefficients[1] = <<One, 0>>
        /\ \A j \in 1..MAX_ROOTS : params.coefficients[j + 1] = <<0, 0>>
        /\ Len(params.coefficients) = MAX_ROOTS + 1
        /\ params.num_roots = 0

(* the empty list has been packed *)
C12_Witness ==
    /\ built
    /\ roots_arg = << >>
    /\ params.num_roots = 0
    /\ ~panicked

(* C13: Params::roots on a list of MAX_ROOTS roots or more is fatal and    *)
(* encodes nothing, and every list of 0..MAX_ROOTS-1 roots is accepted     *)
C13_TooManyRootsIsFatal ==
    /\ panicked => /\ Len(roots_arg) >= MAX_ROOTS
                   /\ ~built
                   /\ params = ParamsDefault
    /\ built => /\ Len(roots_arg) < MAX_ROOTS
                /\ ~panicked
                /\ params.num_roots = Len(roots_arg)

(* the call on a list of exactly MAX_ROOTS roots has aborted *)
C13_Witness ==
    /\ panicked
    /\ Len(roots_arg) = MAX_ROOTS
    /\ ~built

(* C19: the packing step for root r maps the running vector old to new     *)
(* with new[0] = -(r * old[0]) and new[k] = old[k-1] - r * old[k] for      *)
(* 1 <= k <= MAX_ROOTS, the scaling reading the vector as it was before    *)
(* the shift, * the complex product; the roots are taken in input order    *)
(* starting from [1,0,0,...]                                               *)
C19_PackingStepRecurrence ==
    built =>
        /\ After(0) = [j \in 1..(MAX_ROOTS + 1) |->
                         IF j = 1 THEN <<One, 0>> ELSE <<0, 0>>]
        /\ \A k \in 1..Len(roots_arg) :
              LET old == After(k - 1)
                  new == After(k)
                  r == roots_arg[k].position
              IN  /\ new[1] = SNeg(SMul(r, old[1]))
                  /\ \A j \in 1..MAX_ROOTS :
                        new[j + 1] = SSub(old[j], SMul(r, old[j + 1]))
        /\ params.coefficients = After(Len(roots_arg))

(* three different roots packed in an order that shows in the prefixes:    *)
(* after the first root the vector is [-r_0, 1, 0, ...]                    *)
C19_Witness ==
    /\ built
    /\ Len(roots_arg) = 3
    /\ roots_arg[1].position = <<0, One>>
    /\ roots_arg[2].position = <<One, 0 - Half>>
    /\ roots_arg[3].position = <<0 - Half, 0>>
    /\ After(1)[1] = <<0, 0 - One>>
    /\ After(1)[2] = <<One, 0>>

----------------------------------------------------------------------------
(* Further properties of the frame driver, checked under SpecApp *)

(* C15: the viewport fields of the params buffer, and of the buffer every  *)
(* submitted frame was drawn with, are the constants top-left (-1,1) and   *)
(* bottom-right (1,-1), whatever CameraPosition / CameraZoom (or other)    *)
(* events have been applied: the buffer does not depend on the camera      *)
C15_ViewportIsConstant ==
    /\ params_buffer.viewport_min = <<0 - One, One>>
    /\ params_buffer.viewport_max = <<One, 0 - One>>
    /\ frame.submitted =>
          /\ frame.used.viewport_min = <<0 - One, One>>
          /\ frame.used.viewport_max = <<One, 0 - One>>

(* a frame has been drawn and submitted after both camera fields changed *)
C15_Witness ==
    /\ frame.submitted
    /\ config.camera.position # CameraConfigDefault.position
    /\ config.camera.zoom # CameraConfigDefault.zoom
    /\ config.roots = ConfigDefault.roots

(* C16: Config never changes while a frame is in flight (from the redraw   *)
(* request to the return of redraw); the events the UI emits during the    *)
(* draw are only appended to the event queue, and the queue is consumed    *)
(* one event at a time from its head, by Config::apply, between frames     *)
C16_ConfigStableDuringFrame ==
    [][/\ (pc # "idle" \/ pc' # "idle") => config' = config
       /\ config' # config =>
             /\ queue # << >>
             /\ config' = apply(config, Head(queue))
             /\ queue' = Tail(queue)
       /\ queue' # queue =>
             \/ /\ pc = "draw_ui"
                /\ Len(queue') > Len(queue)
                /\ SubSeq(queue', 1, Len(queue)) = queue
             \/ /\ pc = "idle" /\ pc' = "idle"
                /\ queue # << >>
                /\ queue' = Tail(queue)
                /\ config' = apply(config, Head(queue))]_vars

(* two events were emitted in one draw, iteration count first; after the   *)
(* frame the first has been applied and the second is still queued         *)
C16_Witness ==
    /\ pc = "idle"
    /\ frame.presented
    /\ config.num_iterations = 7
    /\ queue = <<AddRoot>>
    /\ config.roots = ConfigDefault.roots
    /\ config.camera = CameraConfigDefault

(* C18: the Config starts with exactly two roots, at (0.5,0) and           *)
(* (-0.5,0), and every step that changes it is the ConfigChange handler    *)
(* applying the event at the head of the queue through Config::apply: that *)
(* step touches neither the surface, the frame, the params buffer nor the  *)
(* exit flag, so MainEventsCleared, redraw and both draws, resize and      *)
(* close leave the Config unchanged                                        *)
C18_ConfigSingleWriter ==
    /\ Len(config.roots) = 2
    /\ config.roots[1].position = <<Half, 0>>
    /\ config.roots[2].position = <<0 - Half, 0>>
    /\ [][config' # config =>
             /\ pc = "idle" /\ pc' = "idle"
             /\ queue # << >>
             /\ queue' = Tail(queue)
             /\ config' = apply(config, Head(queue))
             /\ UNCHANGED <<surface, frame, params_buffer, exited>>]_vars

(* the handler has changed the Config (a third root, the default one) and  *)
(* a frame has since been presented with it                                *)
C18_Witness ==
    /\ pc = "idle"
    /\ frame.presented
    /\ queue = << >>
    /\ Len(config.roots) = 3
    /\ config.roots[3] = RootConfigDefault
    /\ SubSeq(config.roots, 1, 2) = ConfigDefault.roots

(* redraw is not running: it has not been called, has returned, or has   *)
(* returned an error that handle_event unwrapped                          *)
RedrawReturned == pc = "idle" \/ panicked

(* nothing of a frame was done *)
FrameNothing ==
    /\ frame.commands = << >>
    /\ ~frame.submitted
    /\ ~frame.presented
    /\ frame.used = << >>

(* the whole frame was done: fractal draw, UI draw, submit, present *)
FrameComplete ==
    /\ frame.commands = <<"FractalRenderer.render_pass", "UiRenderer.render_pass">>
    /\ frame.submitted
    /\ frame.presented

----------------------------------------------------------------------------
(* Termination of redraw, checked under SpecRedraw *)

(* C20: a redraw that has reached the acquisition loop leaves it and       *)
(* returns: with a presented frame, with a skipped frame (Timeout or       *)
(* Outdated) or with an error; a pass that finds the surface Lost          *)
(* reconfigures it and stays in the loop                                   *)
C20_RedrawReturns ==
    /\ (pc = "acquire") ~>
          \/ pc = "idle" /\ frame.result = "Ok" /\ frame.presented
          \/ pc = "idle" /\ frame.result \in {"Timeout", "Outdated"}
          \/ panicked
    /\ [][(pc = "acquire" /\ surface = "lost" /\ frame' # frame) =>
             /\ pc' = "acquire"
             /\ surface' = "configured"
             /\ frame'.reconfigured]_vars

(* a redraw has returned with a presented frame after the surface was     *)
(* lost and reconfigured in its acquisition loop                          *)
C20_Witness ==
    /\ pc = "idle"
    /\ frame.reconfigured
    /\ frame.result = "Ok"
    /\ frame.presented
    /\ surface = "configured"

----------------------------------------------------------------------------
(* Further properties of Config::apply, checked under Spec *)

(* C22: every step that applies NumIterations(v) sets the iteration count  *)
(* to v and leaves roots and camera as they were; CameraPosition(v) sets   *)
(* only camera.position and CameraZoom(v) only camera.zoom; none of them   *)
(* changes the root list or raises an error, and the step changes nothing  *)
(* outside the Config                                                      *)
C22_NonRootEventsChangeOwnField ==
    [][LET e == last'.event
       IN  /\ e.type = "NumIterations" =>
                 /\ config'.num_iterations = e.num_iterations
                 /\ config'.camera = config.camera
           /\ e.type = "CameraPosition" =>
                 /\ config'.camera.position = e.camera_position
                 /\ config'.camera.zoom = config.camera.zoom
                 /\ config'.num_iterations = config.num_iterations
           /\ e.type = "CameraZoom" =>
                 /\ config'.camera.zoom = e.camera_zoom
                 /\ config'.camera.position = config.camera.position
                 /\ config'.num_iterations = config.num_iterations
           /\ e.type \in {"NumIterations", "CameraPosition", "CameraZoom"} =>
                 /\ config'.roots = config.roots
                 /\ ~panicked'
                 /\ UNCHANGED <<packVars, appVars>>]_vars

(* CameraZoom has just changed the zoom of a camera that had been moved,   *)
(* in a Config with a changed iteration count and an added root            *)
C22_Witness ==
    /\ Ev.type = "CameraZoom"
    /\ Before.camera.position # CameraConfigDefault.position
    /\ Before.camera.zoom # Ev.camera_zoom
    /\ config.camera.zoom = Ev.camera_zoom
    /\ config.camera.position = Before.camera.position
    /\ config.num_iterations # ConfigDefault.num_iterations
    /\ Len(config.roots) = 3

----------------------------------------------------------------------------
(* The events of the UI, checked under SpecApp *)

(* an event that addresses a root by index *)
Indexed(event) == event.type \in {"RootPosition", "RootColor", "RemoveRoot"}

====
